---- MODULE Spec2Model ----
(***************************************************************************)
(* Model of the step-mirroring decorator sync_step and of its dispatch     *)
(* coroutine send_to_api (backend/app/utils/server/sync_step.py).          *)
(*                                                                         *)
(* The model follows one invocation of one wrapped function: the call, the *)
(* stream it produces Event by Event, and the dispatch tasks it leaves on  *)
(* the event loop, while the configuration changes underneath.  What the   *)
(* task-lock lookup returns and what the clock reads are inputs of the     *)
(* step that asks for them.                                                *)
(*                                                                         *)
(* The tracing shim that gives sync_step its logger                        *)
(* (utils/traceroot_wrapper.py) is modelled beside it: its import, its     *)
(* interface trace / get_logger / is_enabled, and the loggers of the       *)
(* logging module that it configures.                                      *)
(*                                                                         *)
(* Three specifications:                                                   *)
(*   Spec        one invocation of a wrapped function, any configuration;  *)
(*   SpecRelock  one invocation with a sink and a correlation source,      *)
(*               while the task lock goes from one task to another;        *)
(*   SpecShim    the import and the use of the tracing shim.               *)
(*                                                                         *)
(* Python values are encoded as records tagged with their type:            *)
(*   [t |-> "None"], [t |-> "str", v |-> "..."], [t |-> "int", v |-> 5],   *)
(*   [t |-> "list", v |-> <<...>>], [t |-> "dict", v |-> [key |-> value]]. *)
(* Objects inspected with hasattr are [t |-> "obj", v |-> attributes].     *)
(***************************************************************************)
EXTENDS Integers, Sequences, FiniteSets, TLC

VARIABLES
    env,         \* current value of the SERVER_URL configuration option
    wrapEnv,     \* value SERVER_URL had when sync_step(func) was applied
    pc,          \* position of the invocation's generator
    args,        \* positional arguments of the invocation
    server_url,  \* the wrapper's local server_url
    produced,    \* Events the wrapped function has produced
    yielded,     \* Events the consumer has received
    raised,      \* exception that left the generator, "none" if none did
    parses,      \* json.loads calls made so far
    lookups,     \* get_task_lock_if_exists calls made so far
    log,         \* entries written to the module logger, in order
    tasks,       \* dispatch tasks created with asyncio.create_task, in order
    sink,        \* indices of the tasks whose request the sink has received
    TRACEROOT_AVAILABLE,  \* the shim's flag: "unset" until the shim is imported
    init_result, \* what traceroot.init() did when the shim was imported
    backend,     \* which definitions of trace, get_logger, is_enabled exist
    notice,      \* the message the shim logged when it was imported
    loggers,     \* handlers and level of the logging module's named loggers
    ret          \* the last call of the shim's interface and what it returned

\* the state of the tracing shim (utils/traceroot_wrapper.py) and of the
\* logging module it configures
shimVars == <<TRACEROOT_AVAILABLE, init_result, backend, notice, loggers, ret>>

\* the state of sync_step and its dispatches
syncVars == <<env, wrapEnv, pc, args, server_url, produced, yielded, raised,
              parses, lookups, log, tasks, sink>>

vars == <<env, wrapEnv, pc, args, server_url, produced, yielded, raised,
          parses, lookups, log, tasks, sink,
          TRACEROOT_AVAILABLE, init_result, backend, notice, loggers, ret>>

-----------------------------------------------------------------------------
(* Bounds *)

\* the longest stream the wrapped function produces
MaxEvents == 2

-----------------------------------------------------------------------------
(* Python values *)

PyNone == [t |-> "None"]
PyStr(s) == [t |-> "str", v |-> s]
PyInt(n) == [t |-> "int", v |-> n]
PyList(q) == [t |-> "list", v |-> q]
PyDict(f) == [t |-> "dict", v |-> f]

\* a test for None where the code tests truthiness: "" passes it
IsNotNone(x) == x.t # "None"

\* Python truthiness of the values that occur as server_url and task ids
Truthy(x) ==
    CASE x.t = "None" -> FALSE
      [] x.t = "str" -> x.v # ""
      [] x.t = "int" -> x.v # 0
      [] x.t = "list" -> x.v # <<>>
      [] x.t = "dict" -> DOMAIN x.v # {}

\* an object with the attributes DOMAIN f
Obj(f) == [t |-> "obj", v |-> f]

\* hasattr(obj, name)
hasattr(obj, name) == name \in DOMAIN obj.v

-----------------------------------------------------------------------------
(* Text operations used by the wrapper *)

\* str.startswith(prefix)
StartsWith(s, prefix) ==
    Len(s) >= Len(prefix) /\ SubSeq(s, 1, Len(prefix)) = prefix

IsSpace(c) == c \in {" ", "\n", "\t", "\r"}

RECURSIVE LStrip(_)
LStrip(s) ==
    IF Len(s) > 0 /\ IsSpace(SubSeq(s, 1, 1))
    THEN LStrip(SubSeq(s, 2, Len(s)))
    ELSE s

RECURSIVE RStrip(_)
RStrip(s) ==
    IF Len(s) > 0 /\ IsSpace(SubSeq(s, Len(s), Len(s)))
    THEN RStrip(SubSeq(s, 1, Len(s) - 1))
    ELSE s

\* str.strip()
Strip(s) == RStrip(LStrip(s))

\* sub in s, for two strings
IsSubstring(sub, s) ==
    \E i \in 1..(Len(s) - Len(sub) + 1) : SubSeq(s, i, i + Len(sub) - 1) = sub

Marker == "data: "

\* lines 37-40: the candidate handed to json.loads
Candidate(value) ==
    IF value.t = "str" /\ StartsWith(value.v, Marker)
    THEN PyStr(Strip(SubSeq(value.v, Len(Marker) + 1, Len(value.v))))
    ELSE value

\* json.loads: a TypeError for anything that is not text, a JSONDecodeError
\* for text that is not a JSON document, the decoded value otherwise.
\* Surrounding whitespace is insignificant to the decoder.
JsonLoads(x) ==
    IF x.t # "str" THEN [exc |-> "TypeError"]
    ELSE LET txt == Strip(x.v) IN
      CASE txt = "{\"step\": \"plan\", \"data\": {\"x\": 1}}" ->
             [exc |-> "none",
              val |-> PyDict([step |-> PyStr("plan"),
                              data |-> PyDict([x |-> PyInt(1)])])]
        [] txt = "{\"step\": \"plan\"}" ->
             [exc |-> "none", val |-> PyDict([step |-> PyStr("plan")])]
        [] txt = "5" -> [exc |-> "none", val |-> PyInt(5)]
        [] txt = "[1]" -> [exc |-> "none", val |-> PyList(<<PyInt(1)>>)]
        [] txt = "\"step data\"" ->
             [exc |-> "none", val |-> PyStr("step data")]
        [] OTHER -> [exc |-> "JSONDecodeError"]

\* key in container: membership for dict and list, substring for str, and a
\* TypeError for values that are not containers
In(key, c) ==
    CASE c.t = "dict" -> IF key \in DOMAIN c.v THEN "yes" ELSE "no"
      [] c.t = "list" ->
           IF \E i \in DOMAIN c.v : c.v[i].t = "str" /\ c.v[i].v = key
           THEN "yes" ELSE "no"
      [] c.t = "str" -> IF IsSubstring(key, c.v) THEN "yes" ELSE "no"
      [] OTHER -> "TypeError"

\* line 49: "step" not in json_data or "data" not in json_data
\* ("or" evaluates its right operand only when the left one is false)
MissingKeys(json_data) ==
    LET a == In("step", json_data) IN
    CASE a = "TypeError" -> "TypeError"
      [] a = "no" -> "yes"
      [] OTHER -> LET b == In("data", json_data) IN
                  CASE b = "TypeError" -> "TypeError"
                    [] b = "no" -> "yes"
                    [] OTHER -> "no"

\* sync_url of line 31, for a truthy server_url
SyncUrl(url) == url.v \o "/chat/steps"

-----------------------------------------------------------------------------
(* The body of the wrapper's loop, lines 33-79, for one Event *)

\* json_data[key]: the value for a dict; str and list take integer indices
GetItem(c, key) ==
    IF c.t = "dict" /\ key \in DOMAIN c.v
    THEN [exc |-> "none", val |-> c.v[key]]
    ELSE [exc |-> IF c.t = "dict" THEN "KeyError" ELSE "TypeError"]

ParseLog(candidate) ==
    [level |-> "error", what |-> "Failed to parse JSON in sync_step",
     value |-> candidate]

MissingLog(json_data) ==
    [level |-> "error", what |-> "Missing 'step' or 'data' key in sync_step JSON",
     keys |-> DOMAIN json_data.v]

LockLog(project_id) ==
    [level |-> "warning", what |-> "Task lock not found", project_id |-> project_id]

\* an entry that tells the failure without the type of the exception
SyncLogUntyped(url, e) ==
    [level |-> "error", what |-> "Failed to sync step", url |-> url,
     type |-> "Exception"]

SyncLog(url, e) ==
    [level |-> "error", what |-> "Failed to sync step", url |-> url, type |-> e]

\* a resolution that prefers the source's own task id to the lock's
ResolveTaskIdOwnFirst(a, lk) ==
    IF ~(Len(a) > 0 /\ hasattr(a[1], "task_id"))
    THEN [exc |-> "none", task_id |-> PyNone, logs |-> <<>>, looked |-> 0]
    ELSE LET chat == a[1] IN
      IF ~hasattr(chat, "project_id")
      THEN [exc |-> "AttributeError", task_id |-> PyNone, logs |-> <<>>,
            looked |-> 0]
      ELSE IF lk.t # "None"
      THEN [exc |-> "none",
            task_id |-> IF Truthy(chat.v.task_id) \/ ~hasattr(lk, "current_task_id")
                        THEN chat.v.task_id
                        ELSE lk.v.current_task_id,
            logs |-> <<>>, looked |-> 1]
      ELSE [exc |-> "none", task_id |-> chat.v.task_id,
            logs |-> <<LockLog(chat.v.project_id)>>, looked |-> 1]

\* a resolution that warns whenever it falls back to the source's own task id
ResolveTaskIdWarnsOnFallback(a, lk) ==
    IF ~(Len(a) > 0 /\ hasattr(a[1], "task_id"))
    THEN [exc |-> "none", task_id |-> PyNone, logs |-> <<>>, looked |-> 0]
    ELSE LET chat == a[1] IN
      IF ~hasattr(chat, "project_id")
      THEN [exc |-> "AttributeError", task_id |-> PyNone, logs |-> <<>>,
            looked |-> 0]
      ELSE IF lk.t # "None" /\ hasattr(lk, "current_task_id")
              /\ Truthy(lk.v.current_task_id)
      THEN [exc |-> "none", task_id |-> lk.v.current_task_id,
            logs |-> <<>>, looked |-> 1]
      ELSE [exc |-> "none", task_id |-> chat.v.task_id,
            logs |-> <<LockLog(chat.v.project_id)>>, looked |-> 1]

\* a resolution made once per invocation: after the first dispatch, the task
\* id of that dispatch is used again and the task lock is not looked up
ResolveTaskIdOnce(a, lk) ==
    IF ~(Len(a) > 0 /\ hasattr(a[1], "task_id"))
    THEN [exc |-> "none", task_id |-> PyNone, logs |-> <<>>, looked |-> 0]
    ELSE LET chat == a[1] IN
      IF ~hasattr(chat, "project_id")
      THEN [exc |-> "AttributeError", task_id |-> PyNone, logs |-> <<>>,
            looked |-> 0]
      ELSE IF tasks # <<>>
      THEN [exc |-> "none", task_id |-> tasks[1].data.task_id,
            logs |-> <<>>, looked |-> 0]
      ELSE IF lk.t # "None"
      THEN [exc |-> "none",
            task_id |-> IF hasattr(lk, "current_task_id")
                           /\ Truthy(lk.v.current_task_id)
                        THEN lk.v.current_task_id
                        ELSE chat.v.task_id,
            logs |-> <<>>, looked |-> 1]
      ELSE [exc |-> "none", task_id |-> chat.v.task_id,
            logs |-> <<LockLog(chat.v.project_id)>>, looked |-> 1]

\* lines 55-65: the task id for one Event, given the call's positional
\* arguments a and the record lk the task-lock lookup returns now
ResolveTaskId(a, lk) ==
    IF ~(Len(a) > 0 /\ hasattr(a[1], "task_id"))
    THEN [exc |-> "none", task_id |-> PyNone, logs |-> <<>>, looked |-> 0]
    ELSE LET chat == a[1] IN
      IF ~hasattr(chat, "project_id")
      THEN [exc |-> "AttributeError", task_id |-> PyNone, logs |-> <<>>,
            looked |-> 0]
      ELSE IF lk.t # "None"
      THEN [exc |-> "none",
            task_id |-> IF hasattr(lk, "current_task_id")
                           /\ Truthy(lk.v.current_task_id)
                        THEN lk.v.current_task_id
                        ELSE chat.v.task_id,
            logs |-> <<>>, looked |-> 1]
      ELSE [exc |-> "none", task_id |-> chat.v.task_id,
            logs |-> <<LockLog(chat.v.project_id)>>, looked |-> 1]

\* a request that is posted to the sink's base URL and carries the whole
\* parsed record as its data
MirrorRequestWholeRecord(url, task_id, json_data, ts) ==
    LET st == GetItem(json_data, "step") IN
    IF st.exc # "none" THEN [exc |-> st.exc]
    ELSE [exc |-> "none",
          url |-> url.v,
          data |-> [task_id |-> task_id, step |-> st.val, data |-> json_data,
                    timestamp |-> ts]]

\* lines 67-78: the request handed to send_to_api, when a task id is resolved
MirrorRequest(url, task_id, json_data, ts) ==
    LET st == GetItem(json_data, "step")
        da == GetItem(json_data, "data") IN
    IF st.exc # "none" THEN [exc |-> st.exc]
    ELSE IF da.exc # "none" THEN [exc |-> da.exc]
    ELSE [exc |-> "none",
          url |-> SyncUrl(url),
          data |-> [task_id |-> task_id, step |-> st.val, data |-> da.val,
                    timestamp |-> ts]]

\* lines 33-79 for one Event: the exception that leaves the generator
\* ("none" when the Event is yielded), the log entries written, the
\* requests scheduled, and the numbers of json.loads and lookup calls made
Body(value, a, url, lk, ts) ==
    LET quiet == [exc |-> "none", logs |-> <<>>, sched |-> <<>>,
                  parsed |-> 0, looked |-> 0] IN
    IF ~Truthy(url) THEN quiet
    ELSE
      LET cand == Candidate(value)
          p == JsonLoads(cand) IN
      IF p.exc = "JSONDecodeError"
      THEN [quiet EXCEPT !.logs = <<ParseLog(cand)>>, !.parsed = 1]
      ELSE IF p.exc # "none"
      THEN [quiet EXCEPT !.exc = p.exc, !.parsed = 1]
      ELSE
        LET json_data == p.val
            miss == MissingKeys(json_data) IN
        IF miss = "TypeError"
        THEN [quiet EXCEPT !.exc = "TypeError", !.parsed = 1]
        ELSE IF miss = "yes"
        THEN IF json_data.t = "dict"
             THEN [quiet EXCEPT !.logs = <<MissingLog(json_data)>>,
                                !.parsed = 1]
             ELSE [quiet EXCEPT !.exc = "AttributeError", !.parsed = 1]
        ELSE
          LET r == ResolveTaskId(a, lk)
              got == [quiet EXCEPT !.logs = r.logs, !.parsed = 1,
                                   !.looked = r.looked] IN
          IF r.exc # "none" THEN [got EXCEPT !.exc = r.exc]
          ELSE IF ~Truthy(r.task_id) THEN got
          ELSE
            LET m == MirrorRequest(url, r.task_id, json_data, ts) IN
            IF m.exc # "none" THEN [got EXCEPT !.exc = m.exc]
            ELSE [got EXCEPT !.sched = <<[url |-> m.url, data |-> m.data]>>]

-----------------------------------------------------------------------------
(* Inputs *)

\* Events the wrapped function may produce: server-sent-event lines and bare
\* JSON texts, text that is not JSON, JSON that is not an object, and a value
\* that is not text at all
Events ==
    { PyStr("data: {\"step\": \"plan\", \"data\": {\"x\": 1}}\n\n"),
      PyStr("not json"),
      PyStr("data: {\"step\": \"plan\"}\n\n"),
      PyStr("data: 5"),
      PyStr("[1]"),
      PyStr("\"step data\""),
      PyDict([step |-> PyStr("plan"), data |-> PyInt(2)]) }

\* values of the SERVER_URL option: unset, empty, a sink
EnvValues == { PyNone, PyStr(""), PyStr("http://sink") }

\* what the task-lock lookup may return for the project: no record, a record
\* without a current task id, with an empty one, with a set one
Locks ==
    { PyNone,
      Obj([id |-> "P1"]),
      Obj([id |-> "P1", current_task_id |-> PyStr("")]),
      Obj([id |-> "P1", current_task_id |-> PyStr("T2")]) }

\* positional arguments of a call of the wrapped function
ArgLists ==
    { <<>>,
      <<Obj([question |-> PyStr("q")])>>,
      <<Obj([task_id |-> PyStr("T1")])>>,
      <<Obj([task_id |-> PyStr("T1"), project_id |-> "P1"])>>,
      <<Obj([task_id |-> PyStr(""), project_id |-> "P1"])>> }

\* readings of time.time_ns() / 1_000_000_000
Times == { 1762225200 }

\* how client.post ends: a response with a status, or an exception
Responses == { "200", "503" }
Failures == { "ConnectError", "ReadTimeout" }

-----------------------------------------------------------------------------
(* The tracing shim, utils/traceroot_wrapper.py: its inputs and values *)

\* the most handlers other code attaches to one logger
MaxOtherHandlers == 1

\* logger names given to get_logger; the second is the default, __name__
Names == { "sync_step", "utils.traceroot_wrapper" }

\* functions the trace decorator is applied to
Funcs == { "step_solve", "send_to_api" }

\* levels a logger is set to: the one a new logger has, the one the shim
\* sets, and one that other code sets
Levels == { "NOTSET", "INFO", "DEBUG" }

\* how the import of the tracing library ends, and how its init() ends
Importable == { "True", "False" }
InitResults == { "truthy", "falsy", "raised" }

\* logging.getLogger(name) for a name not seen before: no handler, no level
BareLogger == [handlers |-> <<>>, level |-> "NOTSET"]

\* lines 80-84: the logger as get_logger configures it
ShimLogger == [handlers |-> <<"shim">>, level |-> "INFO"]

\* nothing of the shim's interface has been called yet
NoCall == [api |-> "none", arg |-> "", val |-> ""]

\* the handlers of a kind ("shim" or "other") among a logger's handlers
NumHandlers(l, kind) ==
    Cardinality({ n \in DOMAIN l.handlers : l.handlers[n] = kind })

-----------------------------------------------------------------------------
(* The state machine *)

\* the tracing shim, not yet imported, and the loggers as the logging
\* module creates them
ShimUnloaded ==
    /\ TRACEROOT_AVAILABLE = "unset"
    /\ init_result = "not called"
    /\ backend = "unloaded"
    /\ notice = "none"
    /\ loggers = [n \in Names |-> BareLogger]
    /\ ret = NoCall

\* the shim as sync_step.py finds it at its line 25, where the tracing
\* library is not installed: imported in fallback mode, and asked once for
\* the logger "sync_step"
ShimFallback ==
    /\ TRACEROOT_AVAILABLE = "False"
    /\ init_result = "not called"
    /\ backend = "logging"
    /\ notice = "TraceRoot not available"
    /\ loggers = [n \in Names |-> IF n = "sync_step" THEN ShimLogger
                                  ELSE BareLogger]
    /\ ret = [api |-> "get_logger", arg |-> "sync_step", val |-> "logging.Logger"]

\* sync_step before any call of a wrapped function
SyncInit ==
    /\ env \in EnvValues
    /\ wrapEnv = env
    /\ pc = "idle"
    /\ args = <<>>
    /\ server_url = PyNone
    /\ produced = <<>>
    /\ yielded = <<>>
    /\ raised = "none"
    /\ parses = 0
    /\ lookups = 0
    /\ log = <<>>
    /\ tasks = <<>>
    /\ sink = <<>>

Init == SyncInit /\ ShimFallback

\* the configuration option is changed from outside
SetEnv(v) ==
    /\ v # env
    /\ env' = v
    /\ UNCHANGED <<wrapEnv, pc, args, server_url, produced, yielded, raised,
                   parses, lookups, log, tasks, sink>>
    /\ UNCHANGED shimVars

\* wrapper(*a): an async generator object is created; none of its code runs
Call(a) ==
    /\ pc = "idle"
    /\ pc' = "created"
    /\ args' = a
    /\ UNCHANGED <<env, wrapEnv, server_url, produced, yielded, raised,
                   parses, lookups, log, tasks, sink>>
    /\ UNCHANGED shimVars

\* a wrapper that uses the value the option had when sync_step was applied
StartAtWrap ==
    /\ pc = "created"
    /\ server_url' = wrapEnv
    /\ pc' = "running"
    /\ UNCHANGED <<env, wrapEnv, args, produced, yielded, raised, parses,
                   lookups, log, tasks, sink>>
    /\ UNCHANGED shimVars

\* first __anext__: lines 30-31 run, then the wrapper waits for func's stream
Start ==
    /\ pc = "created"
    /\ server_url' = env
    /\ pc' = "running"
    /\ UNCHANGED <<env, wrapEnv, args, produced, yielded, raised, parses,
                   lookups, log, tasks, sink>>
    /\ UNCHANGED shimVars

\* a dispatch task as asyncio.create_task leaves it: not yet run, and with
\* no httpx.AsyncClient of its own yet
NewTask(req, idx) ==
    [idx |-> idx, url |-> req.url, data |-> req.data,
     status |-> "scheduled", outcome |-> "none", posts |-> 0,
     client |-> "none"]

\* a wrapper that yields the Event before it has scheduled the dispatch: the
\* consumer holds the Event while no task exists for it
StepYieldsFirst(value, lk, ts) ==
    /\ pc = "running"
    /\ Len(produced) < MaxEvents
    /\ LET r == Body(value, args, server_url, lk, ts) IN
       /\ produced' = Append(produced, value)
       /\ parses' = parses + r.parsed
       /\ lookups' = lookups + r.looked
       /\ log' = log \o r.logs
       /\ tasks' = tasks
       /\ IF r.exc = "none"
          THEN /\ yielded' = Append(yielded, value)
               /\ pc' = "suspended"
               /\ raised' = raised
          ELSE /\ yielded' = yielded
               /\ pc' = "raised"
               /\ raised' = r.exc
    /\ UNCHANGED <<env, wrapEnv, args, server_url, sink>>
    /\ UNCHANGED shimVars

\* func produces value: lines 33-79 run up to the yield, or up to an exception;
\* lk is what the task-lock lookup returns if this Event gets that far, and
\* ts the clock reading
Step(value, lk, ts) ==
    /\ pc = "running"
    /\ Len(produced) < MaxEvents
    /\ LET r == Body(value, args, server_url, lk, ts)
           idx == Len(produced) + 1 IN
       /\ produced' = Append(produced, value)
       /\ parses' = parses + r.parsed
       /\ lookups' = lookups + r.looked
       /\ log' = log \o r.logs
       /\ tasks' = tasks \o [k \in 1..Len(r.sched) |-> NewTask(r.sched[k], idx)]
       /\ IF r.exc = "none"
          THEN /\ yielded' = Append(yielded, value)
               /\ pc' = "suspended"
               /\ raised' = raised
          ELSE /\ yielded' = yielded
               /\ pc' = "raised"
               /\ raised' = r.exc
    /\ UNCHANGED <<env, wrapEnv, args, server_url, sink>>
    /\ UNCHANGED shimVars

\* a wrapper that awaits each dispatch (await send_to_api(...)) instead of
\* handing it to the event loop: it goes on only when its dispatches are over
ResumeAfterDispatch ==
    /\ pc = "suspended"
    /\ \A i \in DOMAIN tasks : tasks[i].status = "done"
    /\ pc' = "running"
    /\ UNCHANGED <<env, wrapEnv, args, server_url, produced, yielded, raised,
                   parses, lookups, log, tasks, sink>>
    /\ UNCHANGED shimVars

\* the consumer asks for the next Event
Resume ==
    /\ pc = "suspended"
    /\ pc' = "running"
    /\ UNCHANGED <<env, wrapEnv, args, server_url, produced, yielded, raised,
                   parses, lookups, log, tasks, sink>>
    /\ UNCHANGED shimVars

\* func's stream ends: the async for loop ends and so does the wrapper
Exhaust ==
    /\ pc = "running"
    /\ pc' = "done"
    /\ UNCHANGED <<env, wrapEnv, args, server_url, produced, yielded, raised,
                   parses, lookups, log, tasks, sink>>
    /\ UNCHANGED shimVars

\* dispatches sent one after the other: a task starts only when the tasks
\* created before it are over
SendStartSerial(i) ==
    /\ i \in DOMAIN tasks
    /\ tasks[i].status = "scheduled"
    /\ \A j \in 1..(i - 1) : tasks[j].status = "done"
    /\ tasks' = [tasks EXCEPT ![i].status = "posting", ![i].posts = @ + 1,
                              ![i].client = "open"]
    /\ UNCHANGED <<env, wrapEnv, pc, args, server_url, produced, yielded,
                   raised, parses, lookups, log, sink>>
    /\ UNCHANGED shimVars

\* send_to_api, lines 85-87: the client is opened and the POST is issued.
\* The event loop runs the tasks it was given in the order it was given them,
\* so a task starts only when the tasks created before it have started.
SendStart(i) ==
    /\ i \in DOMAIN tasks
    /\ tasks[i].status = "scheduled"
    /\ \A j \in 1..(i - 1) : tasks[j].status # "scheduled"
    /\ tasks' = [tasks EXCEPT ![i].status = "posting", ![i].posts = @ + 1,
                              ![i].client = "open"]
    /\ UNCHANGED <<env, wrapEnv, pc, args, server_url, produced, yielded,
                   raised, parses, lookups, log, sink>>
    /\ UNCHANGED shimVars

\* line 87: the sink answers; the response is not looked at
PostReturns(i, code) ==
    /\ i \in DOMAIN tasks
    /\ tasks[i].status = "posting"
    /\ tasks' = [tasks EXCEPT ![i].status = "closing", ![i].outcome = code]
    /\ sink' = Append(sink, i)
    /\ UNCHANGED <<env, wrapEnv, pc, args, server_url, produced, yielded,
                   raised, parses, lookups, log>>
    /\ UNCHANGED shimVars

\* a dispatch that is awaited by the wrapper and lets the exception through
PostRaisesPropagates(i, e) ==
    /\ i \in DOMAIN tasks
    /\ tasks[i].status = "posting"
    /\ tasks' = [tasks EXCEPT ![i].status = "closing", ![i].outcome = e]
    /\ pc' = "raised"
    /\ raised' = e
    /\ UNCHANGED <<env, wrapEnv, args, server_url, produced, yielded,
                   parses, lookups, log, sink>>
    /\ UNCHANGED shimVars

\* a dispatch that is scheduled again when its POST raises
PostRaisesRetries(i, e) ==
    /\ i \in DOMAIN tasks
    /\ tasks[i].status = "posting"
    /\ tasks' = [tasks EXCEPT ![i].status = "scheduled", ![i].outcome = e]
    /\ log' = Append(log, SyncLog(tasks[i].url, e))
    /\ UNCHANGED <<env, wrapEnv, pc, args, server_url, produced, yielded,
                   raised, parses, lookups, sink>>
    /\ UNCHANGED shimVars

\* a dispatch whose client is closed on the success path only: when the POST
\* raises, the task ends with its client still open
PostRaisesLeaks(i, e) ==
    /\ i \in DOMAIN tasks
    /\ tasks[i].status = "posting"
    /\ tasks' = [tasks EXCEPT ![i].status = "done", ![i].outcome = e]
    /\ log' = Append(log, SyncLog(tasks[i].url, e))
    /\ UNCHANGED <<env, wrapEnv, pc, args, server_url, produced, yielded,
                   raised, parses, lookups, sink>>
    /\ UNCHANGED shimVars

\* lines 89-90: the POST raises; the exception is logged and dropped
PostRaises(i, e) ==
    /\ i \in DOMAIN tasks
    /\ tasks[i].status = "posting"
    /\ tasks' = [tasks EXCEPT ![i].status = "closing", ![i].outcome = e]
    /\ log' = Append(log, SyncLog(tasks[i].url, e))
    /\ UNCHANGED <<env, wrapEnv, pc, args, server_url, produced, yielded,
                   raised, parses, lookups, sink>>
    /\ UNCHANGED shimVars

\* line 85, leaving the async with block: the client is closed
SendExit(i) ==
    /\ i \in DOMAIN tasks
    /\ tasks[i].status = "closing"
    /\ tasks' = [tasks EXCEPT ![i].status = "done", ![i].client = "closed"]
    /\ UNCHANGED <<env, wrapEnv, pc, args, server_url, produced, yielded,
                   raised, parses, lookups, log, sink>>
    /\ UNCHANGED shimVars

Next ==
    \/ \E v \in EnvValues : SetEnv(v)
    \/ \E a \in ArgLists : Call(a)
    \/ Start
    \/ \E value \in Events, lk \in Locks, ts \in Times : Step(value, lk, ts)
    \/ Resume
    \/ Exhaust
    \/ \E i \in 1..MaxEvents : SendStart(i)
    \/ \E i \in 1..MaxEvents, code \in Responses : PostReturns(i, code)
    \/ \E i \in 1..MaxEvents, e \in Failures : PostRaises(i, e)
    \/ \E i \in 1..MaxEvents : SendExit(i)

Spec == Init /\ [][Next]_vars

-----------------------------------------------------------------------------
(* Vocabulary of the properties *)

\* the invocation has read its configuration and a sink is configured
SinkOn == server_url.t = "str" /\ server_url.v # ""

\* the invocation has read its configuration and no sink is configured
NoSink == pc \notin {"idle", "created"} /\ ~SinkOn

\* the JSON value of an Event's payload, marker stripped
Parsed(value) == JsonLoads(Candidate(value))

\* the payload parses to a record with the fields step and data
IsStepRecord(value) ==
    /\ Parsed(value).exc = "none"
    /\ Parsed(value).val.t = "dict"
    /\ {"step", "data"} \subseteq DOMAIN Parsed(value).val.v

\* the first positional argument is a correlation source
HasChat(a) == Len(a) > 0 /\ {"task_id", "project_id"} \subseteq DOMAIN a[1].v

\* the tasks scheduled for the k-th Event of the stream
TasksOf(k) == { i \in DOMAIN tasks : tasks[i].idx = k }

Logged(entry) == \E n \in DOMAIN log : log[n] = entry

\* the k-th Event of the stream made an exception leave the generator
RaisedAt(k) == raised # "none" /\ k = Len(produced)

StepLine == PyStr("data: {\"step\": \"plan\", \"data\": {\"x\": 1}}\n\n")

-----------------------------------------------------------------------------
(* Properties *)

\* C1: whatever the Events, the sink configuration, the correlation source
\* and the mirror outcomes, the consumer receives exactly the Events produced
\* upstream, and no exception leaves the wrapped stream.
C1_StreamPreserved == raised = "none" /\ yielded = produced

\* C2: with no sink configured (SERVER_URL unset or empty) the wrapper is a
\* pure pass-through: every Event is yielded unchanged and in order, and no
\* JSON parse, task-lock lookup, log entry or dispatch is made for any Event.
C2_PassThrough ==
    NoSink => /\ yielded = produced
              /\ raised = "none"
              /\ parses = 0
              /\ lookups = 0
              /\ log = <<>>
              /\ tasks = <<>>

\* C2 witness: an empty SERVER_URL, a correlation source, and a stream of two
\* Events, the first a step line, consumed to its end
C2_Witness ==
    /\ pc = "done"
    /\ server_url = PyStr("")
    /\ HasChat(args)
    /\ Len(yielded) = 2
    /\ yielded[1] = StepLine

\* the task id the correlation rules give for a correlation source and a
\* lookup result: the record's current task id if it has a non-empty one,
\* the source's own task id otherwise
RuleTaskId(a, lk) ==
    IF lk.t = "obj" /\ "current_task_id" \in DOMAIN lk.v
       /\ lk.v.current_task_id.t = "str" /\ lk.v.current_task_id.v # ""
    THEN lk.v.current_task_id
    ELSE a[1].v.task_id

\* C3: with a sink configured, an Event whose payload parses to a record with
\* step and data, and for which a task id T is resolved, gets exactly one
\* dispatch, addressed to the sink base URL + "/chat/steps", whose body carries
\* task_id = T, the Event's own step and data, and a timestamp.
C3_OneDispatchPerStep ==
    [][ \A value \in Events, lk \in Locks, ts \in Times :
          ( /\ Step(value, lk, ts)
            /\ SinkOn
            /\ IsStepRecord(value)
            /\ HasChat(args)
            /\ RuleTaskId(args, lk).v # "" )
          => /\ Len(tasks') = Len(tasks) + 1
             /\ LET d == tasks'[Len(tasks')] IN
                /\ d.idx = Len(produced')
                /\ d.status = "scheduled"
                /\ d.url = server_url.v \o "/chat/steps"
                /\ d.data.task_id = RuleTaskId(args, lk)
                /\ d.data.step = Parsed(value).val.v.step
                /\ d.data.data = Parsed(value).val.v.data
                /\ d.data.timestamp = ts
                /\ DOMAIN d.data = {"task_id", "step", "data", "timestamp"}
             /\ \A i \in DOMAIN tasks : tasks'[i] = tasks[i]
      ]_vars

\* C3 witness: the step line of a stream whose correlation source has task id
\* T1 has been mirrored: one dispatch, to http://sink/chat/steps, with
\* task_id T1, step "plan" and data {"x": 1}
C3_Witness ==
    /\ pc = "suspended"
    /\ produced = <<StepLine>>
    /\ Len(tasks) = 1
    /\ tasks[1].url = "http://sink/chat/steps"
    /\ tasks[1].data.task_id = PyStr("T1")
    /\ tasks[1].data.step = PyStr("plan")
    /\ tasks[1].data.data = PyDict([x |-> PyInt(1)])

\* C4: with a sink configured, an Event whose candidate (the Event as-is when
\* it is not a "data: "-prefixed string) cannot be parsed as JSON is logged as
\* a parse failure, gets no dispatch, is yielded unchanged, and raises nothing.
C4_UnparseableIsLoggedAndYielded ==
    SinkOn =>
      \A k \in DOMAIN produced :
        Parsed(produced[k]).exc # "none"
        => /\ ~RaisedAt(k)
           /\ k \in DOMAIN yielded
           /\ yielded[k] = produced[k]
           /\ TasksOf(k) = {}
           /\ Logged(ParseLog(Candidate(produced[k])))

\* C5: with a sink configured, an Event whose candidate parses as JSON to a
\* value, of whatever shape, that does not contain both a step and a data
\* field is logged as incomplete, gets no dispatch, and is yielded unchanged.
C5_IncompleteIsLoggedAndYielded ==
    SinkOn =>
      \A k \in DOMAIN produced :
        (Parsed(produced[k]).exc = "none" /\ ~IsStepRecord(produced[k]))
        => /\ ~RaisedAt(k)
           /\ k \in DOMAIN yielded
           /\ yielded[k] = produced[k]
           /\ TasksOf(k) = {}
           /\ \E n \in DOMAIN log :
                log[n].what = "Missing 'step' or 'data' key in sync_step JSON"

\* C6: when a correlation source exists and the task-lock lookup returns a
\* record, the dispatched task_id is the record's current_task_id if that is
\* present and non-empty, and the source's own task_id otherwise.
C6_LockTaskIdPreferred ==
    [][ \A value \in Events, lk \in Locks, ts \in Times :
          ( /\ Step(value, lk, ts)
            /\ SinkOn
            /\ IsStepRecord(value)
            /\ HasChat(args)
            /\ lk.t = "obj" )
          => LET own == args[1].v.task_id
                 cur == IF "current_task_id" \in DOMAIN lk.v
                        THEN lk.v.current_task_id ELSE PyStr("")
                 want == IF cur.v # "" THEN cur ELSE own IN
             /\ lookups' = lookups + 1
             /\ IF want.v # ""
                THEN /\ Len(tasks') = Len(tasks) + 1
                     /\ tasks'[Len(tasks')].data.task_id = want
                ELSE tasks' = tasks
      ]_vars

\* C6 witness: the lookup returned a record with current_task_id T2 for a
\* source whose own task_id is T1, and the dispatch carries T2
C6_Witness ==
    /\ Len(tasks) = 1
    /\ args[1].v.task_id = PyStr("T1")
    /\ tasks[1].data.task_id = PyStr("T2")

NumWarnings(l) == Cardinality({ n \in DOMAIN l : l[n].level = "warning" })

\* C7: when a correlation source exists and the task-lock lookup returns no
\* record, a warning is logged for that Event and the dispatched task_id is
\* the source's own task_id; a warning is logged in no other case.
C7_MissingLockWarns ==
    [][ \A value \in Events, lk \in Locks, ts \in Times :
          Step(value, lk, ts)
          => /\ ( HasChat(args) /\ lookups' = lookups + 1 /\ lk.t = "None" )
                => /\ log' = Append(log, LockLog(args[1].v.project_id))
                   /\ \A i \in DOMAIN tasks' :
                        i \notin DOMAIN tasks
                        => tasks'[i].data.task_id = args[1].v.task_id
                   /\ ( IsStepRecord(value) /\ args[1].v.task_id.v # "" )
                      => Len(tasks') = Len(tasks) + 1
             /\ NumWarnings(log') # NumWarnings(log)
                => ( HasChat(args) /\ lookups' = lookups + 1 /\ lk.t = "None" )
      ]_vars

\* C7 witness: no task-lock record, a warning in the log, and a dispatch with
\* the source's own task id T1
C7_Witness ==
    /\ Len(tasks) = 1
    /\ tasks[1].data.task_id = PyStr("T1")
    /\ log = <<LockLog("P1")>>

\* C8: a delivery failure inside a dispatch, wherever it falls in the
\* interleaving with the stream, raises nothing out of the wrapped stream,
\* changes nothing of what the consumer receives, and leaves the stream and
\* the other dispatches as they were, free to go on.
C8_SinkFailureIsContained ==
    [][ \A i \in DOMAIN tasks :
          ( tasks[i].status = "posting" /\ tasks'[i].outcome \in Failures )
          => /\ UNCHANGED <<pc, args, server_url, produced, yielded, raised,
                            parses, lookups>>
             /\ \A j \in DOMAIN tasks : j # i => tasks'[j] = tasks[j]
             /\ tasks'[i].status \notin {"scheduled", "posting"}
      ]_vars

\* C8 witness: the dispatch of the first Event failed with a refused
\* connection and was logged; the second Event was then produced, mirrored
\* (its lookup found no record, hence the warning) and yielded
C8_Witness ==
    /\ pc = "done"
    /\ yielded = <<StepLine, StepLine>>
    /\ Len(tasks) = 2
    /\ tasks[1].outcome = "ConnectError"
    /\ Len(log) = 2
    /\ log[1] = SyncLog("http://sink/chat/steps", "ConnectError")
    /\ log[2].level = "warning"

RECURSIVE Posts(_)
Posts(ts) == IF ts = <<>> THEN 0 ELSE ts[1].posts + Posts(Tail(ts))

\* C9: the number of POST attempts is at most the number of Events so far
\* that parsed, had step and data and had a task id resolved; each such Event
\* causes at most one request, and a failed request is not sent again.
C9_AtMostOneRequestPerEvent ==
    /\ \A i \in DOMAIN tasks :
         /\ tasks[i].posts <= 1
         /\ tasks[i].idx \in DOMAIN produced
         /\ IsStepRecord(produced[tasks[i].idx])
         /\ tasks[i].data.task_id.t = "str" /\ tasks[i].data.task_id.v # ""
         /\ tasks[i].outcome # "none" => tasks[i].posts = 1
    /\ \A i, j \in DOMAIN tasks : tasks[i].idx = tasks[j].idx => i = j
    /\ Posts(tasks) <= Cardinality({ k \in DOMAIN produced :
                                      IsStepRecord(produced[k]) })
    /\ Len(sink) <= Posts(tasks)

\* C9 witness: two step lines, two requests, the first of which failed and
\* is over
C9_Witness ==
    /\ Len(tasks) = 2
    /\ tasks[1].status = "done"
    /\ tasks[1].outcome \in Failures
    /\ Posts(tasks) = 2

\* C10 as claimed: the sink base URL is resolved once, when sync_step wraps
\* the function, so an invocation uses the value read at wrap time even if
\* the configuration has changed since.
C10_ResolvedAtWrap == pc \notin {"idle", "created"} => server_url = wrapEnv

\* C10 amended: the sink base URL is read when an invocation starts running,
\* is not read again during that invocation, and every dispatch of the
\* invocation is addressed to that value + "/chat/steps".
C10_ResolvedAtStart ==
    [][ /\ ( pc = "created" /\ pc' = "running" ) => server_url' = env
        /\ pc \notin {"idle", "created"} => server_url' = server_url
        /\ \A i \in DOMAIN tasks' :
             i \notin DOMAIN tasks
             => SinkOn /\ tasks'[i].url = server_url.v \o "/chat/steps"
      ]_vars

\* C10 witness: wrapped with no sink configured, started after a sink was
\* set, two Events mirrored to it, and the option emptied meanwhile
C10_Witness ==
    /\ wrapEnv = PyNone
    /\ server_url = PyStr("http://sink")
    /\ env = PyStr("")
    /\ Len(tasks) = 2
    /\ \A i \in DOMAIN tasks : tasks[i].url = "http://sink/chat/steps"

\* C11: a dispatch never blocks the stream: whatever the dispatch tasks are
\* doing (not started, posting, closing, over), a wrapper suspended at its
\* yield can be resumed and a running wrapper can take the end of the stream,
\* so all the Events of a stream can be yielded while every dispatch is still
\* waiting to run.
C11_DispatchNeverBlocks ==
    /\ pc = "suspended" => ENABLED Resume
    /\ pc = "running" => ENABLED Exhaust

\* C11 witness: the stream of two step lines is over, both Events were
\* yielded, and neither of the two dispatches has started
C11_Witness ==
    /\ pc = "done"
    /\ yielded = <<StepLine, StepLine>>
    /\ Len(tasks) = 2
    /\ \A i \in DOMAIN tasks :
         tasks[i].status = "scheduled" /\ tasks[i].posts = 0
    /\ sink = <<>>

\* C12: when the wrapped function is called with no positional argument, or
\* with a first argument that does not expose both task_id and project_id,
\* then for every Event no task-lock lookup is made, no task id is resolved,
\* no dispatch is scheduled, no error is raised, and the Event is yielded.
C12_NoSourceNoCorrelation ==
    ( pc # "idle" /\ ~HasChat(args) )
    => /\ lookups = 0
       /\ tasks = <<>>
       /\ \A k \in DOMAIN produced :
            IsStepRecord(produced[k])
            => /\ ~RaisedAt(k)
               /\ k \in DOMAIN yielded
               /\ yielded[k] = produced[k]

\* C13: each dispatch acquires its own HTTP client when it starts and
\* releases it on every exit path, after a response as after a failure: a
\* dispatch that has not started has no client, one that is over has its
\* client closed, and the number of open clients is the number of dispatches
\* that have started and are not over.
C13_ClientReleased ==
    /\ \A i \in DOMAIN tasks :
         /\ tasks[i].status = "scheduled" => tasks[i].client = "none"
         /\ tasks[i].status = "done" => tasks[i].client = "closed"
    /\ Cardinality({ i \in DOMAIN tasks : tasks[i].client = "open" })
       = Cardinality({ i \in DOMAIN tasks :
                        tasks[i].status \in {"posting", "closing"} })

\* C13 witness: the first dispatch failed and is over, its client closed,
\* while the second has its client open
C13_Witness ==
    /\ Len(tasks) = 2
    /\ tasks[1].status = "done"
    /\ tasks[1].outcome \in Failures
    /\ tasks[1].client = "closed"
    /\ tasks[2].client = "open"

\* C14: mirror requests are not serialized: a dispatch starts as soon as the
\* dispatches created before it have started, whether or not they are over,
\* and the request of a dispatch that is posting can reach the sink whatever
\* the other dispatches are doing; so the sink can observe the request of a
\* later Event before the request of an earlier one.
C14_RequestsNotSerialized ==
    \A i \in DOMAIN tasks :
      /\ ( /\ tasks[i].status = "scheduled"
           /\ \A j \in 1..(i - 1) : tasks[j].status # "scheduled" )
         => ENABLED SendStart(i)
      /\ tasks[i].status = "posting"
         => \A code \in Responses : ENABLED PostReturns(i, code)

\* C14 witness: the sink received the request of the second Event first
C14_Witness ==
    /\ Len(tasks) = 2
    /\ tasks[1].idx < tasks[2].idx
    /\ sink = <<2, 1>>

\* the entries of the log that report a failed mirror request
SyncEntries == { n \in DOMAIN log : log[n].what = "Failed to sync step" }

\* C15 as claimed: every sink transport failure, be it a network error, a
\* non-2xx response or a timeout, is recovered inside the dispatch: an error
\* entry is logged for it and nothing reaches the wrapped stream.
C15_EveryFailureLogged ==
    /\ raised \notin Failures
    /\ \A i \in DOMAIN tasks :
         tasks[i].outcome \in Failures \cup {"503"}
         => \E n \in SyncEntries : log[n].url = tasks[i].url

\* C15 amended: a POST that raises (network error, timeout) is recovered
\* inside the dispatch: an error entry with the sink URL and the type of the
\* exception is logged and nothing reaches the wrapped stream; a POST that
\* returns a response, 2xx or not, logs nothing.
C15_RaisedFailureLogged ==
    /\ raised \notin Failures
    /\ \A i \in DOMAIN tasks :
         tasks[i].outcome \in Failures
         => \E n \in SyncEntries : /\ log[n].level = "error"
                                   /\ log[n].url = tasks[i].url
                                   /\ log[n].type = tasks[i].outcome
    /\ Cardinality(SyncEntries)
       = Cardinality({ i \in DOMAIN tasks : tasks[i].outcome \in Failures })

\* C15 witness: the first request timed out and was logged, the second was
\* answered 503 and nothing was logged for it
C15_Witness ==
    /\ Len(tasks) = 2
    /\ tasks[1].outcome = "ReadTimeout"
    /\ tasks[2].outcome = "503"
    /\ Cardinality(SyncEntries) = 1
    /\ \A n \in SyncEntries : log[n].type = "ReadTimeout"

\* C18: the dispatch of a mirrorable Event (sink configured, step record, a
\* task id resolved) is scheduled before the Event is yielded, and dispatches
\* are scheduled in the order of production: when the consumer receives such
\* an Event its dispatch exists already, a new dispatch comes after those of
\* the earlier Events, and the number of scheduled dispatches exceeds the
\* number of mirrored Events yielded by at most one.
C18_ScheduledBeforeYielded ==
    [][ /\ \A value \in Events, lk \in Locks, ts \in Times :
             ( /\ Step(value, lk, ts)
               /\ SinkOn
               /\ IsStepRecord(value)
               /\ HasChat(args)
               /\ RuleTaskId(args, lk).v # ""
               /\ yielded' # yielded )
             => \E i \in DOMAIN tasks' : /\ i \notin DOMAIN tasks
                                         /\ tasks'[i].idx = Len(yielded')
        /\ \A i \in DOMAIN tasks : tasks'[i].idx = tasks[i].idx
        /\ \A i, j \in DOMAIN tasks' : i < j => tasks'[i].idx < tasks'[j].idx
        /\ Len(tasks')
             - Cardinality({ k \in DOMAIN yielded' :
                             \E i \in DOMAIN tasks' : tasks'[i].idx = k })
           \in {0, 1}
      ]_vars

\* C18 witness: the wrapper is suspended at the yield of the second of two
\* step lines, and the dispatch of that Event is scheduled, behind the
\* dispatch of the first
C18_Witness ==
    /\ pc = "suspended"
    /\ yielded = <<StepLine, StepLine>>
    /\ Len(tasks) = 2
    /\ tasks[1].idx = 1
    /\ tasks[2].idx = 2
    /\ tasks[2].status = "scheduled"

\* C19: every dispatched payload carries a non-empty task_id: when the
\* source's own task_id is empty and the task lock is absent or has no
\* non-empty current_task_id, no dispatch is scheduled for the Event, and the
\* Event is yielded all the same.
C19_NoEmptyTaskId ==
    [][ /\ \A i \in DOMAIN tasks' :
             /\ tasks'[i].data.task_id.t = "str"
             /\ tasks'[i].data.task_id.v # ""
        /\ \A value \in Events, lk \in Locks, ts \in Times :
             ( /\ Step(value, lk, ts)
               /\ SinkOn
               /\ IsStepRecord(value)
               /\ HasChat(args)
               /\ args[1].v.task_id.v = ""
               /\ \/ lk.t = "None"
                  \/ "current_task_id" \notin DOMAIN lk.v
                  \/ lk.v.current_task_id.v = "" )
             => /\ tasks' = tasks
                /\ yielded' = Append(yielded, value)
                /\ raised' = raised
      ]_vars

\* C19 witness: a source with an empty task_id and two step lines, both
\* yielded: one found T2 in the task lock and was mirrored, the other found
\* no task id and was not
C19_Witness ==
    /\ SinkOn
    /\ HasChat(args)
    /\ args[1].v.task_id = PyStr("")
    /\ yielded = <<StepLine, StepLine>>
    /\ Len(tasks) = 1
    /\ tasks[1].data.task_id = PyStr("T2")

-----------------------------------------------------------------------------
(* One invocation with a sink and a correlation source, whose task lock     *)
(* moves from one task to another while the stream runs                     *)

\* what get_task_lock_if_exists may return as the project goes from task T2
\* to task T3
LocksOverTime == Locks \cup { Obj([id |-> "P1", current_task_id |-> PyStr("T3")]) }

\* the Events of such a stream: step lines, and lines that are not JSON
RelockEvents == { StepLine, PyStr("not json") }

InitRelock == Init /\ env = PyStr("http://sink")

NextRelock ==
    \/ \E a \in { b \in ArgLists : HasChat(b) } : Call(a)
    \/ Start
    \/ \E value \in RelockEvents, lk \in LocksOverTime, ts \in Times :
         Step(value, lk, ts)
    \/ Resume
    \/ Exhaust
    \/ \E i \in 1..MaxEvents : SendStart(i)
    \/ \E i \in 1..MaxEvents, code \in Responses : PostReturns(i, code)
    \/ \E i \in 1..MaxEvents, e \in Failures : PostRaises(i, e)
    \/ \E i \in 1..MaxEvents : SendExit(i)

SpecRelock == InitRelock /\ [][NextRelock]_vars

\* C17: the task id is resolved anew for every Event: an Event mirrored
\* while the task lock has a non-empty current_task_id makes one lookup and
\* its dispatch carries that id, whatever id the earlier dispatches of the
\* invocation carry, and those keep theirs; so when current_task_id changes
\* between two Events, the two mirrors carry the old and the new id.
C17_ResolvedForEveryEvent ==
    [][ \A value \in RelockEvents, lk \in LocksOverTime, ts \in Times :
          ( /\ Step(value, lk, ts)
            /\ IsStepRecord(value)
            /\ lk.t = "obj"
            /\ "current_task_id" \in DOMAIN lk.v
            /\ lk.v.current_task_id.v # "" )
          => /\ lookups' = lookups + 1
             /\ Len(tasks') = Len(tasks) + 1
             /\ tasks'[Len(tasks')].data.task_id = lk.v.current_task_id
             /\ \A i \in DOMAIN tasks :
                  tasks'[i].data.task_id = tasks[i].data.task_id
      ]_vars

\* C17 witness: the lock said T2 for the first Event and T3 for the second,
\* and the two dispatches carry T2 and T3
C17_Witness ==
    /\ Len(tasks) = 2
    /\ tasks[1].idx = 1 /\ tasks[1].data.task_id = PyStr("T2")
    /\ tasks[2].idx = 2 /\ tasks[2].data.task_id = PyStr("T3")
    /\ lookups = 2

-----------------------------------------------------------------------------
(* The tracing shim, utils/traceroot_wrapper.py: its import and its         *)
(* interface, with other code configuring the same loggers                  *)

\* a shim that takes the tracing backend whenever the library is importable,
\* whatever init() returns
ImportIgnoresInit(avail, init) ==
    /\ backend = "unloaded"
    /\ TRACEROOT_AVAILABLE' = avail
    /\ IF avail = "False"
       THEN /\ init_result' = "not called"
            /\ backend' = "logging"
            /\ notice' = "TraceRoot not available"
       ELSE /\ init_result' = init
            /\ backend' = IF init = "raised" THEN "failed" ELSE "traceroot"
            /\ notice' = IF init = "raised" THEN "none"
                         ELSE "TraceRoot initialized successfully"
    /\ UNCHANGED <<loggers, ret>>
    /\ UNCHANGED syncVars

\* lines 21-26 and 50-96: the shim is imported. The library is importable or
\* not; if it is, init() is called and returns a truthy value, a falsy one,
\* or raises, and then the import of the shim fails with that exception
Import(avail, init) ==
    /\ backend = "unloaded"
    /\ TRACEROOT_AVAILABLE' = avail
    /\ IF avail = "False"
       THEN /\ init_result' = "not called"
            /\ backend' = "logging"
            /\ notice' = "TraceRoot not available"
       ELSE /\ init_result' = init
            /\ backend' = CASE init = "truthy" -> "traceroot"
                             [] init = "falsy" -> "logging"
                             [] init = "raised" -> "failed"
            /\ notice' = CASE init = "truthy" -> "TraceRoot initialized successfully"
                            [] init = "falsy" -> "TraceRoot available but not initialized"
                            [] init = "raised" -> "none"
    /\ UNCHANGED <<loggers, ret>>
    /\ UNCHANGED syncVars

\* lines 59-61 and 87-89: is_enabled()
IsEnabled ==
    /\ backend \in {"traceroot", "logging"}
    /\ ret' = [api |-> "is_enabled", arg |-> "",
               val |-> IF backend = "traceroot" THEN "True" ELSE "False"]
    /\ UNCHANGED <<TRACEROOT_AVAILABLE, init_result, backend, notice, loggers>>
    /\ UNCHANGED syncVars

\* lines 53 and 69-73: trace(...)(f), the decorator made with arguments and
\* applied to the function f
TraceCall(f) ==
    /\ backend \in {"traceroot", "logging"}
    /\ ret' = [api |-> "trace(...)(f)", arg |-> f,
               val |-> IF backend = "traceroot" THEN "traceroot.trace(...)(f)"
                       ELSE f]
    /\ UNCHANGED <<TRACEROOT_AVAILABLE, init_result, backend, notice, loggers>>
    /\ UNCHANGED syncVars

\* lines 53 and 69-73: trace(f), the function f given as trace's own
\* argument: the fallback trace returns its inner decorator
TraceBare(f) ==
    /\ backend \in {"traceroot", "logging"}
    /\ ret' = [api |-> "trace(f)", arg |-> f,
               val |-> IF backend = "traceroot" THEN "traceroot.trace(f)"
                       ELSE "decorator"]
    /\ UNCHANGED <<TRACEROOT_AVAILABLE, init_result, backend, notice, loggers>>
    /\ UNCHANGED syncVars

\* a fallback get_logger that configures the logger at every call
GetLoggerAlwaysConfigures(name) ==
    /\ backend \in {"traceroot", "logging"}
    /\ IF backend = "traceroot"
       THEN /\ loggers' = loggers
            /\ ret' = [api |-> "get_logger", arg |-> name,
                       val |-> "traceroot.Logger"]
       ELSE /\ loggers' = [loggers EXCEPT
                             ![name].handlers = Append(@, "shim"),
                             ![name].level = "INFO"]
            /\ ret' = [api |-> "get_logger", arg |-> name,
                       val |-> "logging.Logger"]
    /\ UNCHANGED <<TRACEROOT_AVAILABLE, init_result, backend, notice>>
    /\ UNCHANGED syncVars

\* lines 55-57 and 75-85: get_logger(name)
GetLogger(name) ==
    /\ backend \in {"traceroot", "logging"}
    /\ IF backend = "traceroot"
       THEN /\ loggers' = loggers
            /\ ret' = [api |-> "get_logger", arg |-> name,
                       val |-> "traceroot.Logger"]
       ELSE /\ loggers' = IF loggers[name].handlers = <<>>
                          THEN [loggers EXCEPT
                                  ![name].handlers = Append(@, "shim"),
                                  ![name].level = "INFO"]
                          ELSE loggers
            /\ ret' = [api |-> "get_logger", arg |-> name,
                       val |-> "logging.Logger"]
    /\ UNCHANGED <<TRACEROOT_AVAILABLE, init_result, backend, notice>>
    /\ UNCHANGED syncVars

\* other code attaches a handler of its own to a logger
OtherAddHandler(name) ==
    /\ NumHandlers(loggers[name], "other") < MaxOtherHandlers
    /\ loggers' = [loggers EXCEPT ![name].handlers = Append(@, "other")]
    /\ UNCHANGED <<TRACEROOT_AVAILABLE, init_result, backend, notice, ret>>
    /\ UNCHANGED syncVars

\* other code sets the level of a logger
OtherSetLevel(name, level) ==
    /\ level # loggers[name].level
    /\ loggers' = [loggers EXCEPT ![name].level = level]
    /\ UNCHANGED <<TRACEROOT_AVAILABLE, init_result, backend, notice, ret>>
    /\ UNCHANGED syncVars

ShimInit == SyncInit /\ env = PyNone /\ ShimUnloaded

ShimNext ==
    \/ \E avail \in Importable, init \in InitResults : Import(avail, init)
    \/ IsEnabled
    \/ \E f \in Funcs : TraceCall(f)
    \/ \E f \in Funcs : TraceBare(f)
    \/ \E name \in Names : GetLogger(name)
    \/ \E name \in Names : OtherAddHandler(name)
    \/ \E name \in Names, level \in Levels : OtherSetLevel(name, level)

SpecShim == ShimInit /\ [][ShimNext]_vars

\* C16: the shim takes exactly one backend when it is imported: it is the
\* tracing one, and is_enabled() returns True, if and only if the tracing
\* library is importable and its init() returns a truthy value; with the
\* other backend, trace(...) applied to a function returns that function and
\* get_logger returns a logger of the logging module.
C16_OneBackendAtImport ==
    LET on == TRACEROOT_AVAILABLE = "True" /\ init_result = "truthy" IN
    /\ ( backend = "traceroot" ) <=> on
    /\ ( backend = "logging" )
       <=> ( \/ TRACEROOT_AVAILABLE = "False"
            \/ ( TRACEROOT_AVAILABLE = "True" /\ init_result = "falsy" ) )
    /\ ret.api = "is_enabled" => ( ret.val = "True" <=> on )
    /\ ret.api = "is_enabled" => ret.val \in {"True", "False"}
    /\ ( ~on /\ ret.api = "trace(...)(f)" ) => ret.val = ret.arg
    /\ ( ~on /\ ret.api = "get_logger" ) => ret.val = "logging.Logger"

\* C16 witness: the library was importable but its init() returned a falsy
\* value, and trace(...) applied to send_to_api returned send_to_api
C16_Witness ==
    /\ TRACEROOT_AVAILABLE = "True"
    /\ init_result = "falsy"
    /\ backend = "logging"
    /\ ret = [api |-> "trace(...)(f)", arg |-> "send_to_api",
              val |-> "send_to_api"]

\* C20: in fallback mode get_logger configures a logger at most once: a call
\* for a logger with no handler gives it the shim's handler and the level
\* INFO, a call for a logger that has a handler, the shim's or another,
\* leaves its handlers and level as they are, no call touches another
\* logger, and so no logger ever has more than one handler of the shim.
C20_GetLoggerIdempotent ==
    [][ /\ \A name \in Names :
             ( GetLogger(name) /\ backend = "logging" )
             => /\ \A other \in Names \ {name} :
                     loggers'[other] = loggers[other]
                /\ IF loggers[name].handlers = <<>>
                   THEN loggers'[name] = [handlers |-> <<"shim">>, level |-> "INFO"]
                   ELSE loggers'[name] = loggers[name]
        /\ \A name \in Names : NumHandlers(loggers'[name], "shim") <= 1
      ]_vars

\* C20 witness: get_logger was last called for a logger that other code had
\* given a handler and the level DEBUG, and left it so, while the logger
\* sync_step, which had no handler, has the shim's handler alone
C20_Witness ==
    /\ backend = "logging"
    /\ ret = [api |-> "get_logger", arg |-> "utils.traceroot_wrapper",
              val |-> "logging.Logger"]
    /\ loggers["utils.traceroot_wrapper"] = [handlers |-> <<"other">>, level |-> "DEBUG"]
    /\ loggers["sync_step"] = [handlers |-> <<"shim">>, level |-> "INFO"]

====
